---- MODULE Spec2Model ----
(***************************************************************************)
(* Paper-trading ledger of crypto_bot.py: the three sqlite tables (users,  *)
(* portfolio, history), the /buy and /sell handlers, the query handlers    *)
(* (/start, /balance, /portfolio, /price) and get_history.                 *)
(*                                                                         *)
(* Scheduling.  The handlers are coroutines of one asyncio event loop      *)
(* (executor.start_polling).  A coroutine gives the loop away only at an   *)
(* await, and cmd_buy / cmd_sell await nothing but message.reply, which is *)
(* their last statement on every path: the sqlite3 and requests calls are  *)
(* blocking calls.  So the body of a handler, from its first line to its   *)
(* reply, runs while no other handler runs.  `cur` is the handler that     *)
(* holds the loop; the steps inside a handler are kept apart because each  *)
(* sqlite statement commits on its own (isolation_level=None), which is    *)
(* what a storage failure between two statements exposes.                  *)
(*                                                                         *)
(* Messages.  `queued` counts the updates received whose handler has not   *)
(* started; the text of a message is drawn when its handler starts, which  *)
(* is when the program first looks at it.  `last` keeps the message, the   *)
(* locals and the outcome of the handler that ended last, with the tables  *)
(* as it found and left them; `serial` is what the handlers started so far *)
(* give when each runs alone.  Both only record; no action reads them to   *)
(* decide what the program does.  `report` and `rows` keep what the last   *)
(* query replied.                                                          *)
(*                                                                         *)
(* Specifications.  Spec: the trades.  SpecFail: the trades with sqlite3   *)
(* calls that raise.  SpecHist: trades, the clock and get_history.         *)
(* SpecQuery: trades and the query handlers.  SpecLive: the trades under   *)
(* the fairness that a started handler runs on.                            *)
(*                                                                         *)
(* Numbers.  Decimal values are exact; they are held as integers:          *)
(*   USD amounts   in units of 0.001 USD    (UsdPerCent units = 0.01)      *)
(*   coin amounts  in units of 0.00001 coin (CoinPerStep units = 0.0001)   *)
(*   prices        in units of 0.01 USD per coin                           *)
(* str()/Decimal() of a stored value give the same value back exactly, so  *)
(* a table cell holds the number itself.  All inputs stay far below the    *)
(* 28 significant digits of the decimal context.                           *)
(***************************************************************************)
EXTENDS Integers, Sequences, FiniteSets, TLC

\* ---- bounds of the model ----
MaxReq == 3        \* messages received in one run
MaxClock == 1      \* seconds the clock of CURRENT_TIMESTAMP advances

\* ---- program constants ----
INITIAL_USD_BALANCE == 10000000     \* Decimal("10000.00")
UsdPerCent == 10                    \* Decimal("0.01") in USD units
CoinPerStep == 10                   \* Decimal("0.0001") in coin units
UsdtPrice == 100                    \* Decimal("1") in price units
DefaultLimit == 10                  \* get_history(user_id, limit=10)

AVAILABLE_COINS ==
    [c \in {"btc", "eth", "bnb", "ada", "usdt"} |->
        CASE c = "btc" -> "BTCUSDT"
          [] c = "eth" -> "ETHUSDT"
          [] c = "bnb" -> "BNBUSDT"
          [] c = "ada" -> "ADAUSDT"
          [] c = "usdt" -> "USDTUSDT"]

\* ---- inputs ----
UserIds == {1, 2}
None == "None"
\* an optional Decimal: a numeric argument as typed (ok = it parses) or the
\* Decimal | None of get_price (ok = it is not None)
Tok(ok, val) == [ok |-> ok, val |-> val]
BadTok == Tok(FALSE, 0)
NoPrice == Tok(FALSE, 0)
\* what the price source answers: 400.01, 600.00 or nothing
Quotes == {NoPrice, Tok(TRUE, 40001), Tok(TRUE, 60000)}
\* /buy arguments: a missing amount, an unknown coin, a malformed amount, 0,
\* and 0.003, 10.00 and 20000.00 USD
BuyArgs ==
    { <<"btc">>, <<"doge", Tok(TRUE, 10000)>>, <<"btc", BadTok>>, <<"btc", Tok(TRUE, 0)>>,
      <<"btc", Tok(TRUE, 3)>>, <<"btc", Tok(TRUE, 10000)>>, <<"btc", Tok(TRUE, 20000000)>>,
      <<"usdt", Tok(TRUE, 10000)>> }
\* /sell arguments: the same malformed ones, and 0.00005 and 0.0249 btc (what
\* 10.00 USD buy at 400.01), 10 usdt (what 10.00 USD buy)
SellArgs ==
    { <<"btc">>, <<"doge", Tok(TRUE, 10000)>>, <<"btc", BadTok>>, <<"btc", Tok(TRUE, 0)>>,
      <<"btc", Tok(TRUE, 5)>>, <<"btc", Tok(TRUE, 2490)>>, <<"usdt", Tok(TRUE, 1000000)>> }
Messages ==
    [cmd : {"buy"}, user : UserIds, parts : BuyArgs]
        \cup [cmd : {"sell"}, user : UserIds, parts : SellArgs]

VARIABLES
    users,      \* table users: user_id -> usd_balance
    portfolio,  \* table portfolio: <<user_id, coin>> -> amount
    history,    \* table history, in id order
    clock,      \* CURRENT_TIMESTAMP
    queued,     \* messages received whose handler has not started
    rq,         \* the handlers that run: start number -> message and locals
    cur,        \* the handler that holds the event loop: {} or {start number}
    nrun,       \* handlers started so far
    last,       \* the handler that ended last: its message, locals and outcome
    serial,     \* users and portfolio, had every handler run alone in start order
    rows,       \* the last get_history call and what it returned
    report      \* the last query command and what it replied

vars == <<users, portfolio, history, clock, queued, rq, cur, nrun, last, serial, rows,
          report>>

\* ---- DB helpers: each takes the table it reads and gives the table it leaves ----
\* get_usd_balance
get_usd_balance(tbl, user_id) == IF user_id \in DOMAIN tbl THEN tbl[user_id] ELSE 0

\* ensure_user as INSERT OR REPLACE: it resets an account that exists
ensure_user_replace(tbl, user_id) ==
    [u \in DOMAIN tbl \cup {user_id} |->
        IF u = user_id THEN INITIAL_USD_BALANCE ELSE tbl[u]]

\* ensure_user
ensure_user(tbl, user_id) ==
    IF user_id \in DOMAIN tbl
        THEN tbl
        ELSE [u \in DOMAIN tbl \cup {user_id} |->
                 IF u = user_id THEN INITIAL_USD_BALANCE ELSE tbl[u]]

\* update_usd_balance with no WHERE clause: every row is set
update_usd_balance_all(tbl, user_id, new_balance) ==
    [u \in DOMAIN tbl |-> new_balance]

\* update_usd_balance: UPDATE touches existing rows only
update_usd_balance(tbl, user_id, new_balance) ==
    [u \in DOMAIN tbl |-> IF u = user_id THEN new_balance ELSE tbl[u]]

\* get_portfolio(user_id).get(coin, Decimal("0"))
Holding(tbl, user_id, coin) ==
    IF <<user_id, coin>> \in DOMAIN tbl THEN tbl[<<user_id, coin>>] ELSE 0

\* update_portfolio without its DELETE branch
update_portfolio_upsert(tbl, user_id, coin, amount) ==
    [k \in DOMAIN tbl \cup {<<user_id, coin>>} |->
        IF k = <<user_id, coin>> THEN amount ELSE tbl[k]]

\* update_portfolio
update_portfolio(tbl, user_id, coin, amount) ==
    IF amount <= 0
        THEN [k \in DOMAIN tbl \ {<<user_id, coin>>} |-> tbl[k]]
        ELSE [k \in DOMAIN tbl \cup {<<user_id, coin>>} |->
                 IF k = <<user_id, coin>> THEN amount ELSE tbl[k]]

\* add_history that keeps a bounded table: the oldest row goes when one is added
add_history_rotate(tbl, user_id, action, coin, amount, price) ==
    Append(IF tbl = <<>> THEN tbl ELSE Tail(tbl),
           [id |-> Len(tbl) + 1, user_id |-> user_id, action |-> action,
            coin |-> coin, amount |-> amount, price |-> price, timestamp |-> clock])

\* add_history
add_history(tbl, user_id, action, coin, amount, price) ==
    Append(tbl,
           [id |-> Len(tbl) + 1, user_id |-> user_id, action |-> action,
            coin |-> coin, amount |-> amount, price |-> price, timestamp |-> clock])

\* the columns get_history selects
Row(e) == [action |-> e.action, coin |-> e.coin, amount |-> e.amount, price |-> e.price,
           timestamp |-> e.timestamp]

\* get_history: every result SELECT ... WHERE user_id = ? ORDER BY timestamp DESC
\* LIMIT ? may give.  The statement orders by timestamp alone, so rows of one
\* second come in whatever order the query plan yields.
get_history(tbl, user_id, limit) ==
    LET own == {i \in 1..Len(tbl) : tbl[i].user_id = user_id}
        n == Cardinality(own)
        k == IF limit < n THEN limit ELSE n
        orders == {f \in [1..n -> own] :
                      /\ \A i, j \in 1..n : f[i] = f[j] => i = j
                      /\ \A i, j \in 1..n :
                             i < j => tbl[f[i]].timestamp >= tbl[f[j]].timestamp}
    IN  {[i \in 1..k |-> Row(tbl[f[i]])] : f \in orders}

\* the price source asked for every symbol, the fixed-price pair too
get_price_source(symbol, quote) == quote

\* get_price: the fixed-price pair never asks the source
get_price(symbol, quote) == IF symbol = "USDTUSDT" THEN Tok(TRUE, UsdtPrice) ELSE quote

\* ---- Decimal arithmetic ----
\* the same with rounding=ROUND_HALF_UP
BuyCoinAmountHalfUp(usd_amount, price) ==
    ((2 * usd_amount * 1000 + price) \div (2 * price)) * CoinPerStep

\* (usd_amount / price).quantize(Decimal("0.0001"), rounding=ROUND_DOWN)
BuyCoinAmount(usd_amount, price) == ((usd_amount * 1000) \div price) * CoinPerStep

\* the same with rounding=ROUND_UP
SellUsdGainUp(coin_amount, price) ==
    ((coin_amount * price + 99999) \div 100000) * UsdPerCent

\* (coin_amount * price).quantize(Decimal("0.01"), rounding=ROUND_DOWN)
SellUsdGain(coin_amount, price) == ((coin_amount * price) \div 100000) * UsdPerCent

\* no get_history call yet
NoRows == [user |-> 0, limit |-> 0, hlen |-> 0, result |-> <<>>]

\* no query command yet
NoReport ==
    [cmd |-> None, user |-> 0, arg |-> None, shown |-> Tok(FALSE, 0), held |-> <<>>,
     quotes |-> <<>>, values |-> <<>>, total |-> 0, done |-> FALSE]

\* ---- the handlers ----
Ledger == [users |-> users, portfolio |-> portfolio, history |-> history]

Running(r) == r \in DOMAIN rq
\* a handler that awaited inside its body would let a second one start
LoopShared == Cardinality(cur) < 2

\* the event loop is free to start a handler: no handler is inside its body
LoopFree == cur = {}

\* a message arrives
Submit ==
    /\ nrun + queued < MaxReq
    /\ queued' = queued + 1
    /\ UNCHANGED <<users, portfolio, history, clock, rq, cur, nrun, last, serial, rows, report>>

\* the argument checks of cmd_buy / cmd_sell
ValidArgs(parts) ==
    /\ Len(parts) = 2
    /\ parts[1] \in DOMAIN AVAILABLE_COINS
    /\ parts[2].ok
    /\ parts[2].val > 0

\* cmd_buy / cmd_sell run alone on the tables s, the price source answering quote
RunAlone(s, msg, quote) ==
    IF ~ValidArgs(msg.parts) THEN s
    ELSE LET coin == msg.parts[1]
             arg == msg.parts[2].val
             us == ensure_user(s.users, msg.user)
             balance == get_usd_balance(us, msg.user)
             have == Holding(s.portfolio, msg.user, coin)
             price == get_price(AVAILABLE_COINS[coin], quote)
             refused == [users |-> us, portfolio |-> s.portfolio]
         IN  IF msg.cmd = "buy"
               THEN IF arg > balance \/ ~price.ok THEN refused
                    ELSE [users |-> update_usd_balance(us, msg.user, balance - arg),
                          portfolio |-> update_portfolio(s.portfolio, msg.user, coin,
                                            have + BuyCoinAmount(arg, price.val))]
               ELSE IF arg > have \/ ~price.ok THEN refused
                    ELSE [users |-> update_usd_balance(us, msg.user,
                                        balance + SellUsdGain(arg, price.val)),
                          portfolio |-> update_portfolio(s.portfolio, msg.user, coin,
                                            have - arg)]

\* the locals of a handler
Locals(msg, quote) ==
    [cmd |-> msg.cmd, user |-> msg.user, parts |-> msg.parts, quote |-> quote,
     pc |-> "ensure", balance |-> 0, have |-> 0, price |-> NoPrice, fetched |-> FALSE,
     amount |-> 0, writes |-> 0, pre |-> Ledger]

Set(r, fields) == [rq EXCEPT ![r] = fields @@ rq[r]]

\* a sell of the whole holding, and the run of such sells it continues
WholeSell(m) ==
    /\ m.cmd = "sell"
    /\ ValidArgs(m.parts)
    /\ m.parts[2].val = Holding(m.pre.portfolio, m.user, m.parts[1])
SameSell(m) ==
    /\ last.streak > 0
    /\ m.cmd = "sell"
    /\ m.user = last.user
    /\ m.parts = last.parts
    /\ m.run = last.run + 1
Streak(m, outcome) ==
    LET more == SameSell(m)
        one == more \/ WholeSell(m)
        was(f) == IF more THEN last[f] ELSE 0
    IN  [streak |-> IF one THEN was("streak") + 1 ELSE 0,
         sold |-> IF one THEN was("sold") + (IF outcome = "Success" THEN 1 ELSE 0) ELSE 0,
         refused |-> IF one THEN was("refused")
                         + (IF outcome = "InsufficientHoldings" THEN 1 ELSE 0) ELSE 0,
         unpriced |-> IF one THEN was("unpriced")
                         + (IF outcome = "PriceUnavailable" THEN 1 ELSE 0) ELSE 0,
         gained |-> IF one THEN was("gained")
                         + (IF outcome = "Success" THEN m.amount ELSE 0) ELSE 0,
         first |-> IF more THEN last.first ELSE m.pre]

\* what is kept of a handler that ended
Ended(m, outcome, post) ==
    [cmd |-> m.cmd, user |-> m.user, parts |-> m.parts, quote |-> m.quote,
     balance |-> m.balance, have |-> m.have, price |-> m.price, fetched |-> m.fetched,
     amount |-> m.amount, writes |-> m.writes, pre |-> m.pre, run |-> m.run,
     outcome |-> outcome, post |-> post] @@ Streak(m, outcome)

NoLast ==
    [cmd |-> None, user |-> 0, parts |-> <<>>, quote |-> NoPrice,
     balance |-> 0, have |-> 0, price |-> NoPrice, fetched |-> FALSE,
     amount |-> 0, writes |-> 0, pre |-> [users |-> <<>>, portfolio |-> <<>>, history |-> <<>>],
     run |-> 0, outcome |-> None, post |-> [users |-> <<>>, portfolio |-> <<>>, history |-> <<>>],
     streak |-> 0, sold |-> 0, refused |-> 0, unpriced |-> 0, gained |-> 0,
     first |-> [users |-> <<>>, portfolio |-> <<>>, history |-> <<>>]]

\* the handler r ends: it awaits message.reply, its last statement, and gives the
\* loop away
Finish(r, outcome, fields, post) ==
    /\ last' = Ended(fields @@ rq[r] @@ [run |-> r], outcome, post)
    /\ rq' = [x \in DOMAIN rq \ {r} |-> rq[x]]
    /\ cur' = cur \ {r}

\* the handlers with ensure_user as their first statement, as in cmd_balance: the
\* account is created before the arguments are looked at
StartEnsureFirst(msg, quote) ==
    /\ LoopFree
    /\ queued > 0
    /\ queued' = queued - 1
    /\ nrun' = nrun + 1
    /\ serial' = RunAlone(serial, msg, quote)
    /\ users' = ensure_user(users, msg.user)
    /\ IF ValidArgs(msg.parts)
         THEN /\ rq' = [x \in DOMAIN rq \cup {nrun + 1} |->
                           IF x = nrun + 1 THEN Locals(msg, quote) ELSE rq[x]]
              /\ cur' = cur \cup {nrun + 1}
              /\ UNCHANGED last
         ELSE /\ quote = NoPrice
              /\ last' = Ended(Locals(msg, quote) @@ [run |-> nrun + 1], "InvalidInput",
                               [users |-> ensure_user(users, msg.user),
                                portfolio |-> portfolio, history |-> history])
              /\ UNCHANGED <<rq, cur>>
    /\ UNCHANGED <<portfolio, history, clock, rows, report>>

\* the event loop starts the handler of a queued message; the handler checks its
\* arguments and replies at once when they are wrong
Start(msg, quote) ==
    /\ LoopFree
    /\ queued > 0
    /\ queued' = queued - 1
    /\ nrun' = nrun + 1
    /\ serial' = RunAlone(serial, msg, quote)
    /\ IF ValidArgs(msg.parts)
         THEN /\ rq' = [x \in DOMAIN rq \cup {nrun + 1} |->
                           IF x = nrun + 1 THEN Locals(msg, quote) ELSE rq[x]]
              /\ cur' = cur \cup {nrun + 1}
              /\ UNCHANGED last
         ELSE /\ quote = NoPrice
              /\ last' = Ended(Locals(msg, quote) @@ [run |-> nrun + 1], "InvalidInput",
                               Ledger)
              /\ UNCHANGED <<rq, cur>>
    /\ UNCHANGED <<users, portfolio, history, clock, rows, report>>

\* ensure_user(user_id)
Ensure(r) ==
    /\ Running(r)
    /\ rq[r].pc = "ensure"
    /\ users' = ensure_user(users, rq[r].user)
    /\ rq' = Set(r, [pc |-> "check"])
    /\ UNCHANGED <<portfolio, history, clock, queued, cur, nrun, last, serial, rows, report>>

\* the handlers with no test of the holding in cmd_sell
CheckBuyOnly(r) ==
    /\ Running(r)
    /\ rq[r].pc = "check"
    /\ LET m == rq[r]
           balance == get_usd_balance(users, m.user)
       IN  IF m.cmd = "buy" /\ m.parts[2].val > balance
             THEN Finish(r, "InsufficientFunds", [balance |-> balance], Ledger)
             ELSE /\ rq' = Set(r, [pc |-> "fetch", balance |-> balance,
                                   have |-> Holding(portfolio, m.user, m.parts[1])])
                  /\ UNCHANGED <<cur, last>>
    /\ UNCHANGED <<users, portfolio, history, clock, queued, nrun, serial, rows, report>>

\* buy: balance = get_usd_balance; usd_amount > balance is refused
\* sell: have = portfolio.get(coin, 0); coin_amount > have is refused
Check(r) ==
    /\ Running(r)
    /\ rq[r].pc = "check"
    /\ LET m == rq[r]
           arg == m.parts[2].val
           balance == get_usd_balance(users, m.user)
           have == Holding(portfolio, m.user, m.parts[1])
       IN  IF m.cmd = "buy"
             THEN IF arg > balance
                    THEN Finish(r, "InsufficientFunds", [balance |-> balance], Ledger)
                    ELSE /\ rq' = Set(r, [pc |-> "fetch", balance |-> balance])
                         /\ UNCHANGED <<cur, last>>
             ELSE IF arg > have
                    THEN Finish(r, "InsufficientHoldings", [have |-> have], Ledger)
                    ELSE /\ rq' = Set(r, [pc |-> "fetch", have |-> have])
                         /\ UNCHANGED <<cur, last>>
    /\ UNCHANGED <<users, portfolio, history, clock, queued, nrun, serial, rows, report>>

\* get_price with no timeout and no except: a request the source never answers is
\* waited for without end
FetchHangs(r) ==
    /\ Running(r)
    /\ rq[r].pc = "fetch"
    /\ LET m == rq[r]
           price == get_price(AVAILABLE_COINS[m.parts[1]], m.quote)
       IN  IF ~price.ok
             THEN UNCHANGED <<rq, cur, last>>
             ELSE /\ rq' = Set(r, [pc |-> "w1", price |-> price, fetched |-> TRUE])
                  /\ UNCHANGED <<cur, last>>
    /\ UNCHANGED <<users, portfolio, history, clock, queued, nrun, serial, rows, report>>

\* price = get_price(pair); None is refused
Fetch(r) ==
    /\ Running(r)
    /\ rq[r].pc = "fetch"
    /\ LET m == rq[r]
           price == get_price(AVAILABLE_COINS[m.parts[1]], m.quote)
       IN  IF ~price.ok
             THEN Finish(r, "PriceUnavailable", [price |-> price, fetched |-> TRUE], Ledger)
             ELSE /\ rq' = Set(r, [pc |-> "w1", price |-> price, fetched |-> TRUE])
                  /\ UNCHANGED <<cur, last>>
    /\ UNCHANGED <<users, portfolio, history, clock, queued, nrun, serial, rows, report>>

\* the handlers refusing a buy whose coin_amount truncates to zero
Write1RefuseZero(r) ==
    /\ Running(r)
    /\ rq[r].pc = "w1"
    /\ LET m == rq[r]
           arg == m.parts[2].val
       IN  IF m.cmd = "buy" /\ BuyCoinAmount(arg, m.price.val) = 0
             THEN /\ Finish(r, "InvalidInput", [amount |-> 0], Ledger)
                  /\ UNCHANGED <<users, portfolio>>
             ELSE /\ UNCHANGED <<cur, last>>
                  /\ IF m.cmd = "buy"
                       THEN /\ users' = update_usd_balance(users, m.user, m.balance - arg)
                            /\ portfolio' = portfolio
                            /\ rq' = Set(r, [pc |-> "w2", writes |-> 1,
                                             amount |-> BuyCoinAmount(arg, m.price.val)])
                       ELSE /\ portfolio' = update_portfolio(portfolio, m.user, m.parts[1],
                                                             m.have - arg)
                            /\ users' = users
                            /\ rq' = Set(r, [pc |-> "w2", writes |-> 1,
                                             amount |-> SellUsdGain(arg, m.price.val)])
    /\ UNCHANGED <<history, clock, queued, nrun, serial, rows, report>>

\* buy: coin_amount is computed, update_usd_balance(balance - usd_amount)
\* sell: usd_gain is computed, update_portfolio(have - coin_amount)
Write1(r) ==
    /\ Running(r)
    /\ rq[r].pc = "w1"
    /\ LET m == rq[r]
           arg == m.parts[2].val
       IN  IF m.cmd = "buy"
             THEN /\ users' = update_usd_balance(users, m.user, m.balance - arg)
                  /\ portfolio' = portfolio
                  /\ rq' = Set(r, [pc |-> "w2", writes |-> 1,
                                   amount |-> BuyCoinAmount(arg, m.price.val)])
             ELSE /\ portfolio' = update_portfolio(portfolio, m.user, m.parts[1],
                                                   m.have - arg)
                  /\ users' = users
                  /\ rq' = Set(r, [pc |-> "w2", writes |-> 1,
                                   amount |-> SellUsdGain(arg, m.price.val)])
    /\ UNCHANGED <<history, clock, queued, cur, nrun, last, serial, rows, report>>

\* buy: update_portfolio(get_portfolio().get(coin, 0) + coin_amount)
\* sell: update_usd_balance(get_usd_balance() + usd_gain)
Write2(r) ==
    /\ Running(r)
    /\ rq[r].pc = "w2"
    /\ LET m == rq[r]
       IN  IF m.cmd = "buy"
             THEN /\ portfolio' = update_portfolio(portfolio, m.user, m.parts[1],
                                      Holding(portfolio, m.user, m.parts[1]) + m.amount)
                  /\ users' = users
             ELSE /\ users' = update_usd_balance(users, m.user,
                                      get_usd_balance(users, m.user) + m.amount)
                  /\ portfolio' = portfolio
    /\ rq' = Set(r, [pc |-> "w3", writes |-> 2])
    /\ UNCHANGED <<history, clock, queued, cur, nrun, last, serial, rows, report>>

\* add_history(...), then the reply
Write3(r) ==
    /\ Running(r)
    /\ rq[r].pc = "w3"
    /\ LET m == rq[r]
           h == add_history(history, m.user, m.cmd, m.parts[1],
                            IF m.cmd = "buy" THEN m.amount ELSE m.parts[2].val,
                            m.price.val)
       IN  /\ history' = h
           /\ Finish(r, "Success", [writes |-> 3],
                     [users |-> users, portfolio |-> portfolio, history |-> h])
    /\ UNCHANGED <<users, portfolio, clock, queued, nrun, serial, rows, report>>

\* a second passes
Tick ==
    /\ clock < MaxClock
    /\ clock' = clock + 1
    /\ UNCHANGED <<users, portfolio, history, queued, rq, cur, nrun, last, serial, rows, report>>

Init ==
    /\ users = <<>>
    /\ portfolio = <<>>
    /\ history = <<>>
    /\ clock = 0
    /\ queued = 0
    /\ rq = <<>>
    /\ cur = {}
    /\ nrun = 0
    /\ last = NoLast
    /\ serial = [users |-> <<>>, portfolio |-> <<>>]
    /\ rows = NoRows
    /\ report = NoReport

Next ==
    \/ Submit
    \/ \E msg \in Messages, quote \in Quotes : Start(msg, quote)
    \/ \E r \in DOMAIN rq : Ensure(r)
    \/ \E r \in DOMAIN rq : Check(r)
    \/ \E r \in DOMAIN rq : Fetch(r)
    \/ \E r \in DOMAIN rq : Write1(r)
    \/ \E r \in DOMAIN rq : Write2(r)
    \/ \E r \in DOMAIN rq : Write3(r)

Spec == Init /\ [][Next]_vars

\* A handler that has started goes on to its next statement: it is straight-line
\* code on the event loop, every sqlite3 call returns (timeout=10) and requests.get
\* returns or raises within its timeout=10, which get_price turns into None.
HandlerStep(r) ==
    Ensure(r) \/ Check(r) \/ Fetch(r) \/ Write1(r) \/ Write2(r) \/ Write3(r)

\* the messages whose handlers are followed to their end: a missing amount, buys
\* of 10.00 and 20000.00 USD, a sell of 0.0249 btc
LiveMessages ==
    {msg \in Messages :
        msg.parts \in {<<"btc">>, <<"btc", Tok(TRUE, 10000)>>,
                       <<"btc", Tok(TRUE, 20000000)>>, <<"btc", Tok(TRUE, 2490)>>}}

NextLive ==
    \/ Submit
    \/ \E msg \in LiveMessages, quote \in Quotes : Start(msg, quote)
    \/ \E r \in DOMAIN rq : Ensure(r)
    \/ \E r \in DOMAIN rq : Check(r)
    \/ \E r \in DOMAIN rq : Fetch(r)
    \/ \E r \in DOMAIN rq : Write1(r)
    \/ \E r \in DOMAIN rq : Write2(r)
    \/ \E r \in DOMAIN rq : Write3(r)

SpecLive == Init /\ [][NextLive]_vars /\ WF_vars(\E r \in DOMAIN rq : HandlerStep(r))

\* a sqlite3 call of the running handler raises (disk full, I/O error, database
\* locked past the timeout): the handler ends there, what the statements before it
\* wrote stays written since every statement commits on its own
StorageFailure(r) ==
    /\ Running(r)
    /\ rq[r].pc \in {"ensure", "check", "w1", "w2", "w3"}
    /\ last' = Ended(rq[r] @@ [run |-> r], "StorageFailure", Ledger)
    /\ rq' = [x \in DOMAIN rq \ {r} |-> rq[x]]
    /\ cur' = cur \ {r}
    /\ UNCHANGED <<users, portfolio, history, clock, queued, nrun, serial, rows, report>>

\* get_history(user_id, limit) is called while no handler is inside its body
GetHistory(user_id, limit) ==
    /\ LoopFree
    /\ \E result \in get_history(history, user_id, limit) :
           rows' = [user |-> user_id, limit |-> limit, hlen |-> Len(history),
                    result |-> result]
    /\ UNCHANGED <<users, portfolio, history, clock, queued, rq, cur, nrun, last, serial,
                   report>>

\* the trades that fill the history for the get_history calls: buys of 10.00 USD
\* and sells of 10 usdt
HistMessages ==
    {msg \in Messages :
        msg.parts \in {<<"btc", Tok(TRUE, 10000)>>, <<"usdt", Tok(TRUE, 10000)>>,
                       <<"usdt", Tok(TRUE, 1000000)>>}}

NextHist ==
    \/ Submit
    \/ \E msg \in HistMessages, quote \in Quotes : Start(msg, quote)
    \/ \E r \in DOMAIN rq : Ensure(r)
    \/ \E r \in DOMAIN rq : Check(r)
    \/ \E r \in DOMAIN rq : Fetch(r)
    \/ \E r \in DOMAIN rq : Write1(r)
    \/ \E r \in DOMAIN rq : Write2(r)
    \/ \E r \in DOMAIN rq : Write3(r)
    \/ Tick
    \/ \E user_id \in UserIds, limit \in {1, 2, DefaultLimit} : GetHistory(user_id, limit)

SpecHist == Init /\ [][NextHist]_vars

NextFail ==
    \/ Next
    \/ \E r \in DOMAIN rq : StorageFailure(r)

SpecFail == Init /\ [][NextFail]_vars

\* ---- the query commands ----
\* Each is a message like a trade; its handler, too, awaits nothing but its reply.
\* x.quantize(unit) under the default context, rounding=ROUND_HALF_EVEN
quantize(x, unit) ==
    LET q == x \div unit
        rem == x % unit
    IN  (IF 2 * rem > unit \/ (2 * rem = unit /\ q % 2 = 1) THEN q + 1 ELSE q) * unit

\* get_portfolio: coin -> amount of the user's rows
get_portfolio(tbl, user_id) ==
    [c \in {k[2] : k \in {k \in DOMAIN tbl : k[1] = user_id}} |-> tbl[<<user_id, c>>]]

\* pair = AVAILABLE_COINS.get(coin); price = get_price(pair) if pair else None
PriceOf(coin, quotes) ==
    IF coin \in DOMAIN AVAILABLE_COINS
        THEN get_price(AVAILABLE_COINS[coin], quotes[coin])
        ELSE NoPrice

\* amt * price with no test of price: amt * None raises TypeError (ok = FALSE)
ValuationStrict(amt, price) ==
    IF price.ok
        THEN Tok(TRUE, quantize(amt * price.val, 100000) \div 10000)
        ELSE Tok(FALSE, 0)

\* value = (amt * price).quantize(Decimal("0.01")) if price else Decimal("0"), in
\* USD units; ok = the expression did not raise
Valuation(amt, price) ==
    IF price.ok /\ price.val # 0
        THEN Tok(TRUE, quantize(amt * price.val, 100000) \div 10000)
        ELSE Tok(TRUE, 0)

\* total += value over portfolio.items()
RECURSIVE SumValues(_, _)
SumValues(values, coins) ==
    IF coins = {} THEN 0
    ELSE LET c == CHOOSE x \in coins : TRUE
         IN  values[c].val + SumValues(values, coins \ {c})

\* the event loop starts the handler of a queued message that is a query
Dequeue ==
    /\ LoopFree
    /\ queued > 0
    /\ queued' = queued - 1
    /\ nrun' = nrun + 1

\* /start, /help
cmd_start_help(user_id) ==
    /\ Dequeue
    /\ users' = ensure_user(users, user_id)
    /\ serial' = [serial EXCEPT !.users = ensure_user(@, user_id)]
    /\ report' = [NoReport EXCEPT !.cmd = "start", !.user = user_id, !.done = TRUE]
    /\ UNCHANGED <<portfolio, history, clock, rq, cur, last, rows>>

\* /balance that stores what it shows: the balance rounded to cents
cmd_balance_store(user_id) ==
    /\ Dequeue
    /\ LET us == ensure_user(users, user_id)
           shown == quantize(get_usd_balance(us, user_id), UsdPerCent)
       IN  /\ users' = update_usd_balance(us, user_id, shown)
           /\ report' = [NoReport EXCEPT !.cmd = "balance", !.user = user_id,
                                         !.shown = Tok(TRUE, shown), !.done = TRUE]
    /\ serial' = [serial EXCEPT !.users = ensure_user(@, user_id)]
    /\ UNCHANGED <<portfolio, history, clock, rq, cur, last, rows>>

\* /balance
cmd_balance(user_id) ==
    /\ Dequeue
    /\ users' = ensure_user(users, user_id)
    /\ serial' = [serial EXCEPT !.users = ensure_user(@, user_id)]
    /\ report' = [NoReport EXCEPT
                     !.cmd = "balance", !.user = user_id, !.done = TRUE,
                     !.shown = Tok(TRUE, quantize(get_usd_balance(users', user_id),
                                                  UsdPerCent))]
    /\ UNCHANGED <<portfolio, history, clock, rq, cur, last, rows>>

\* /portfolio, the price source answering quotes[coin] for each coin held; when an
\* expression raises the handler dies without a reply (done = FALSE)
cmd_portfolio(user_id, quotes) ==
    /\ Dequeue
    /\ users' = ensure_user(users, user_id)
    /\ serial' = [serial EXCEPT !.users = ensure_user(@, user_id)]
    /\ LET held == get_portfolio(portfolio, user_id)
           values == [c \in DOMAIN held |-> Valuation(held[c], PriceOf(c, quotes))]
           raised == \E c \in DOMAIN held : ~values[c].ok
       IN  report' = [NoReport EXCEPT
                         !.cmd = "portfolio", !.user = user_id, !.held = held,
                         !.quotes = quotes,
                         !.values = [c \in DOMAIN held |-> values[c].val],
                         !.total = IF raised THEN 0
                                   ELSE quantize(SumValues(values, DOMAIN held), UsdPerCent),
                         !.done = ~raised]
    /\ UNCHANGED <<portfolio, history, clock, rq, cur, last, rows>>

\* /price <arg>
cmd_price(arg, quote) ==
    /\ Dequeue
    /\ report' = [NoReport EXCEPT
                     !.cmd = "price", !.arg = arg, !.done = TRUE,
                     !.shown = IF arg \in DOMAIN AVAILABLE_COINS
                                   THEN get_price(AVAILABLE_COINS[arg], quote)
                                   ELSE NoPrice]
    /\ UNCHANGED <<users, portfolio, history, clock, rq, cur, last, serial, rows>>

\* a message is answered from get_history(user_id, limit).  The function is there
\* for the /history of HELP_TEXT; no registered handler calls it, so this is the
\* call alone, made in the place of a handler
HistoryQuery(user_id, limit) ==
    /\ Dequeue
    /\ \E result \in get_history(history, user_id, limit) :
           rows' = [user |-> user_id, limit |-> limit, hlen |-> Len(history),
                    result |-> result]
    /\ UNCHANGED <<users, portfolio, history, clock, rq, cur, last, serial, report>>

\* the trades before the queries: buys of 0.003 and 10.00 USD
QueryMessages ==
    [cmd : {"buy"}, user : UserIds,
     parts : { <<"btc", Tok(TRUE, 3)>>, <<"btc", Tok(TRUE, 10000)>>,
               <<"eth", Tok(TRUE, 10000)>>, <<"usdt", Tok(TRUE, 10000)>> }]
\* what the price source answers to them: 400.00 or nothing
TradeQuotes == {NoPrice, Tok(TRUE, 40000)}
\* what it answers to the queries: 401.00, 403.00 or nothing
QueryQuotes == {NoPrice, Tok(TRUE, 40100), Tok(TRUE, 40300)}
PriceArgs == {"", "doge", "btc", "usdt"}

NextQuery ==
    \/ Submit
    \/ \E msg \in QueryMessages, quote \in TradeQuotes : Start(msg, quote)
    \/ \E r \in DOMAIN rq : Ensure(r)
    \/ \E r \in DOMAIN rq : Check(r)
    \/ \E r \in DOMAIN rq : Fetch(r)
    \/ \E r \in DOMAIN rq : Write1(r)
    \/ \E r \in DOMAIN rq : Write2(r)
    \/ \E r \in DOMAIN rq : Write3(r)
    \/ \E user_id \in UserIds : cmd_start_help(user_id)
    \/ \E user_id \in UserIds : cmd_balance(user_id)
    \/ \E user_id \in UserIds :
           \E quotes \in [DOMAIN get_portfolio(portfolio, user_id) -> QueryQuotes] :
               cmd_portfolio(user_id, quotes)
    \/ \E arg \in PriceArgs, quote \in QueryQuotes : cmd_price(arg, quote)
    \/ \E user_id \in UserIds, limit \in {1, DefaultLimit} : HistoryQuery(user_id, limit)

SpecQuery == Init /\ [][NextQuery]_vars

\* ---- what the claims speak of, for the handler that ended last ----
Rejected == {"InvalidInput", "InsufficientFunds", "InsufficientHoldings", "PriceUnavailable"}
LastCoin == last.parts[1]
LastArg == last.parts[2].val
\* the balance of a user: an account not yet created holds the initial balance,
\* which is what ensure_user gives it on the first valid command
BalanceOf(tbl, user_id) ==
    IF user_id \in DOMAIN tbl THEN tbl[user_id] ELSE INITIAL_USD_BALANCE
\* the request asks for more than the user has as the handler starts
Unaffordable ==
    IF last.cmd = "buy"
        THEN LastArg > BalanceOf(last.pre.users, last.user)
        ELSE LastArg > Holding(last.pre.portfolio, last.user, LastCoin)
\* the price source has no price for the request's coin
Unpriced == ~get_price(AVAILABLE_COINS[LastCoin], last.quote).ok

\* C1: in every reachable state, whatever buys and sells were handled and in whatever
\* order, every stored usd_balance is >= 0 and every stored holding is > 0 (a
\* holding that reaches zero has no row).
Solvent ==
    /\ \A u \in DOMAIN users : users[u] >= 0
    /\ \A k \in DOMAIN portfolio : portfolio[k] > 0

\* a whole holding was sold and its row is gone, after a buy had created it
SolventWitness ==
    /\ last.outcome = "Success"
    /\ last.cmd = "sell"
    /\ last.have = LastArg
    /\ <<last.user, LastCoin>> \notin DOMAIN portfolio
    /\ Len(history) >= 2

\* C2 as claimed: of N >= 2 sells of the user's whole holding H, handled one after
\* the other with nothing between them, exactly one succeeds and the other N-1 end
\* in InsufficientHoldings; the balance gains the proceeds of one sale.
SellAllExactlyOnce ==
    last.streak >= 2 =>
        /\ last.sold = 1
        /\ last.refused = last.streak - 1
        /\ BalanceOf(last.post.users, last.user)
               = BalanceOf(last.first.users, last.user) + last.gained
        /\ Holding(last.post.portfolio, last.user, LastCoin) = 0

\* C2 as amended: of these N sells at most one succeeds and every other one ends in
\* InsufficientHoldings or PriceUnavailable; when none of them is refused a price,
\* exactly one succeeds and N-1 end in InsufficientHoldings; the balance gains the
\* proceeds of the sale that succeeded and nothing else, and the holding is 0 after
\* a sale and H without one, never negative.
SellAllAtMostOnce ==
    last.streak >= 2 =>
        /\ last.sold <= 1
        /\ last.sold + last.refused + last.unpriced = last.streak
        /\ last.unpriced = 0 => (last.sold = 1 /\ last.refused = last.streak - 1)
        /\ last.sold = 0 => last.gained = 0
        /\ BalanceOf(last.post.users, last.user)
               = BalanceOf(last.first.users, last.user) + last.gained
        /\ Holding(last.post.portfolio, last.user, LastCoin)
               = (IF last.sold = 1 THEN 0
                  ELSE Holding(last.first.portfolio, last.user, LastCoin))
        /\ Holding(last.post.portfolio, last.user, LastCoin) >= 0

\* two sells of the whole holding were handled: one sold, the other was refused
SellAllWitness ==
    /\ last.streak >= 2
    /\ last.sold = 1
    /\ last.refused = 1
    /\ last.gained > 0

\* C3: whenever no handler is inside its body, balances and holdings are what the
\* handlers started so far give when each runs alone, one after the other; and what
\* a handler has read (the balance of a buy, the holding of a sell) is still what
\* is stored when it writes: no write of one trade is lost to a stale read of
\* another.  No two handlers of one user are inside their bodies at once.
Serialized ==
    /\ cur = {} => (users = serial.users /\ portfolio = serial.portfolio)
    /\ \A r1, r2 \in DOMAIN rq : rq[r1].user = rq[r2].user => r1 = r2
    /\ \A r \in DOMAIN rq :
           rq[r].pc \in {"fetch", "w1"} =>
               IF rq[r].cmd = "buy"
                   THEN rq[r].balance = get_usd_balance(users, rq[r].user)
                   ELSE rq[r].have = Holding(portfolio, rq[r].user, rq[r].parts[1])

\* two trades of one user were applied
SerializedWitness ==
    /\ cur = {}
    /\ nrun >= 2
    /\ Len(history) >= 2
    /\ history[1].user_id = history[2].user_id

\* C4: the balance change, the holding change and the history entry of a trade are
\* all present or all absent, also when a storage failure stops the trade.
AllOrNothing == last.writes \in {0, 3}

\* C5: a successful buy of U USD at price P by a user with balance B >= U leaves
\* the balance at B - U and adds to the holding the largest multiple of 0.0001 whose
\* value at P is at most U.
BuyConserves ==
    (last.cmd = "buy" /\ last.outcome = "Success") =>
        LET B == BalanceOf(last.pre.users, last.user)
            P == last.price.val
            q == Holding(last.post.portfolio, last.user, LastCoin)
                     - Holding(last.pre.portfolio, last.user, LastCoin)
            steps == q \div CoinPerStep
        IN  /\ 0 < LastArg /\ LastArg <= B /\ P > 0
            /\ get_usd_balance(last.post.users, last.user) = B - LastArg
            /\ q = steps * CoinPerStep
            /\ steps * P <= LastArg * 1000
            /\ LastArg * 1000 < (steps + 1) * P
            /\ q = 0 => (<<last.user, LastCoin>> \in DOMAIN last.post.portfolio
                            <=> <<last.user, LastCoin>> \in DOMAIN last.pre.portfolio)

\* a buy added to a holding the user had, and U / P was truncated
BuyWitness ==
    /\ last.cmd = "buy"
    /\ last.outcome = "Success"
    /\ Holding(last.pre.portfolio, last.user, LastCoin) > 0
    /\ (last.amount \div CoinPerStep) * last.price.val < LastArg * 1000
    /\ last.amount > 0

\* C6: a successful sell of Q coins at price P by a user who holds H >= Q leaves the
\* holding at H - Q (no row when H = Q) and adds to the balance the largest multiple
\* of 0.01 that is at most Q x P.
SellConserves ==
    (last.cmd = "sell" /\ last.outcome = "Success") =>
        LET H == Holding(last.pre.portfolio, last.user, LastCoin)
            P == last.price.val
            g == get_usd_balance(last.post.users, last.user)
                     - BalanceOf(last.pre.users, last.user)
            cents == g \div UsdPerCent
        IN  /\ 0 < LastArg /\ LastArg <= H
            /\ Holding(last.post.portfolio, last.user, LastCoin) = H - LastArg
            /\ <<last.user, LastCoin>> \in DOMAIN last.post.portfolio <=> H > LastArg
            /\ g = cents * UsdPerCent
            /\ cents * 100000 <= LastArg * P
            /\ LastArg * P < (cents + 1) * 100000

\* a whole holding was sold, its row is gone and Q x P was truncated
SellWitness ==
    /\ last.cmd = "sell"
    /\ last.outcome = "Success"
    /\ LastArg = Holding(last.pre.portfolio, last.user, LastCoin)
    /\ <<last.user, LastCoin>> \notin DOMAIN last.post.portfolio
    /\ (last.amount \div UsdPerCent) * 100000 < LastArg * last.price.val

\* C7: a rejected trade leaves every holding, the history and every balance as they
\* were when its handler started (the balance of a user being the initial balance
\* until the account exists).
RejectedChangesNothing ==
    last.outcome \in Rejected =>
        /\ last.post.portfolio = last.pre.portfolio
        /\ last.post.history = last.pre.history
        /\ \A u \in UserIds :
               BalanceOf(last.post.users, u) = BalanceOf(last.pre.users, u)
        /\ DOMAIN last.post.users \subseteq DOMAIN last.pre.users \cup {last.user}

\* a trade of a user who has traded before was rejected after its arguments passed
RejectedWitness ==
    /\ last.outcome \in Rejected \ {"InvalidInput"}
    /\ last.user \in DOMAIN last.pre.users
    /\ last.pre.users[last.user] # INITIAL_USD_BALANCE
    /\ last.pre.portfolio # <<>>

\* C8: a successful trade appends exactly one history entry that carries its user,
\* action, coin, executed quantity and unit price; a rejected trade appends none;
\* no step changes or removes an entry that exists.
HistoryAppendOnly ==
    /\ [](last.outcome = "Success" =>
            /\ Len(last.post.history) = Len(last.pre.history) + 1
            /\ SubSeq(last.post.history, 1, Len(last.pre.history)) = last.pre.history
            /\ LET e == last.post.history[Len(last.post.history)]
               IN  /\ e.user_id = last.user
                   /\ e.action = last.cmd
                   /\ e.coin = LastCoin
                   /\ e.amount = (IF last.cmd = "buy" THEN last.amount ELSE LastArg)
                   /\ e.price = last.price.val
                   /\ e.id = Len(last.post.history))
    /\ [](last.outcome \in Rejected => last.post.history = last.pre.history)
    /\ [][/\ Len(history') >= Len(history)
          /\ SubSeq(history', 1, Len(history)) = history]_vars

\* a trade succeeded when the history already held an entry
HistoryWitness ==
    /\ last.outcome = "Success"
    /\ Len(last.pre.history) >= 1
    /\ history = last.post.history

\* the user's trades in commit order, as rows
Trades(tbl, user_id) ==
    LET own == SelectSeq(tbl, LAMBDA e : e.user_id = user_id)
    IN  [i \in 1..Len(own) |-> Row(own[i])]
\* the last k elements of a sequence, the last one first
LastFirst(sq, k) ==
    LET m == IF k < Len(sq) THEN k ELSE Len(sq)
    IN  [i \in 1..m |-> sq[Len(sq) + 1 - i]]

\* C9: get_history(user, limit) returns the last min(limit, n) trades of the user,
\* the one committed last first, also when trades share a timestamp.
RecentFirst ==
    rows.user # 0 =>
        rows.result = LastFirst(Trades(SubSeq(history, 1, rows.hlen), rows.user), rows.limit)

\* C10 as claimed: the price is fetched before sufficiency is checked, so a valid
\* request that is unaffordable and has no price ends in PriceUnavailable, and a
\* request refused for insufficiency had its price fetched.
PriceThenSufficiency ==
    /\ (last.cmd # None /\ ValidArgs(last.parts) /\ Unaffordable /\ Unpriced)
           => last.outcome = "PriceUnavailable"
    /\ last.outcome \in {"InsufficientFunds", "InsufficientHoldings"} => last.fetched

\* C10 as amended: the steps run in the order Validate, CheckSufficiency,
\* FetchPrice, Apply.  No price is fetched for invalid arguments or for a request
\* that is unaffordable, so a valid request that is unaffordable and has no price
\* ends in InsufficientFunds (buy) or InsufficientHoldings (sell); nothing is written
\* before the price is there.
SufficiencyThenPrice ==
    /\ \A r \in DOMAIN rq :
           /\ rq[r].fetched =>
                  (IF rq[r].cmd = "buy" THEN rq[r].parts[2].val <= rq[r].balance
                   ELSE rq[r].parts[2].val <= rq[r].have)
           /\ rq[r].writes > 0 => (rq[r].fetched /\ rq[r].price.ok)
    /\ last.cmd # None =>
           /\ ~ValidArgs(last.parts) => (last.outcome = "InvalidInput" /\ ~last.fetched)
           /\ (ValidArgs(last.parts) /\ Unaffordable) =>
                  /\ ~last.fetched
                  /\ last.outcome = (IF last.cmd = "buy" THEN "InsufficientFunds"
                                     ELSE "InsufficientHoldings")
           /\ (ValidArgs(last.parts) /\ ~Unaffordable) => last.fetched
           /\ last.outcome = "PriceUnavailable" <=>
                  (ValidArgs(last.parts) /\ ~Unaffordable /\ Unpriced)
           /\ last.writes > 0 => (last.fetched /\ last.price.ok)

\* an unaffordable buy of a coin that has no price ended in InsufficientFunds
SufficiencyWitness ==
    /\ last.cmd = "buy"
    /\ ValidArgs(last.parts)
    /\ Unaffordable
    /\ Unpriced
    /\ last.outcome = "InsufficientFunds"

\* C11: a buy or sell with a coin that is not supported, or an amount that does not
\* parse or is not > 0, ends in InvalidInput before any I/O: its handler never
\* reaches ensure_user, a read of the balance or the holding, get_price or a write;
\* no account is created and the tables are as they were.
InvalidBeforeIO ==
    /\ \A r \in DOMAIN rq : ValidArgs(rq[r].parts)
    /\ last.cmd # None =>
           /\ last.outcome = "InvalidInput" <=> ~ValidArgs(last.parts)
           /\ last.outcome = "InvalidInput" =>
                  /\ ~last.fetched
                  /\ last.writes = 0
                  /\ last.post = last.pre
                  /\ DOMAIN last.post.users = DOMAIN last.pre.users
                  /\ last.run = nrun => Ledger = last.pre

\* a user who has no account sent an amount of 0, a malformed amount or a coin that
\* is not supported, while another user has an account and a holding
InvalidWitness ==
    /\ last.outcome = "InvalidInput"
    /\ last.run = nrun
    /\ Len(last.parts) = 2
    /\ \/ (last.parts[2].ok /\ last.parts[2].val = 0)
       \/ ~last.parts[2].ok
       \/ last.parts[1] \notin DOMAIN AVAILABLE_COINS
    /\ last.user \notin DOMAIN users
    /\ portfolio # <<>>

\* C12: ensure_user creates the account with the initial balance only when the user
\* has none and leaves every existing account as it is; calling it again, or for
\* two users in either order, gives the same table.  In every step an account that
\* exists stays, a new account starts with 10000.00, and the balance of an existing
\* account changes only in a write of a trade of its user.
LazyAccount ==
    /\ [](\A u \in UserIds :
            LET t == ensure_user(users, u)
            IN  /\ DOMAIN t = DOMAIN users \cup {u}
                /\ \A v \in DOMAIN users : t[v] = users[v]
                /\ u \notin DOMAIN users => t[u] = INITIAL_USD_BALANCE
                /\ ensure_user(t, u) = t
                /\ \A v \in UserIds :
                       ensure_user(t, v) = ensure_user(ensure_user(users, v), u))
    /\ [][\A u \in UserIds :
            /\ u \in DOMAIN users => u \in DOMAIN users'
            /\ (u \notin DOMAIN users /\ u \in DOMAIN users')
                   => users'[u] = INITIAL_USD_BALANCE
            /\ (u \in DOMAIN users /\ users'[u] # users[u])
                   => \E r \in DOMAIN rq :
                          /\ rq[r].user = u
                          /\ rq[r].pc \in {"w1", "w2"}
                          /\ rq[r].fetched]_vars

\* a command called ensure_user for an account whose balance trades had changed
LazyWitness ==
    /\ report.cmd \in {"start", "balance", "portfolio"}
    /\ report.user \in DOMAIN users
    /\ users[report.user] # INITIAL_USD_BALANCE
    /\ last.outcome = "Success"
    /\ last.run < nrun
    /\ cur = {}

\* C13: a step in which a query handler runs (/start, /balance, /portfolio, /price,
\* the history query) leaves every holding, every history entry and every balance
\* of an existing account unchanged, whatever the price source answers; the one
\* thing it may add is the missing account of the user who asked, with the initial
\* balance, and /price and the history query add none.
QueriesReadOnly ==
    [][(nrun' = nrun + 1 /\ rq' = rq /\ last' = last) =>
           /\ portfolio' = portfolio
           /\ history' = history
           /\ \A u \in DOMAIN users : u \in DOMAIN users' /\ users'[u] = users[u]
           /\ \A u \in DOMAIN users' \ DOMAIN users :
                  /\ users'[u] = INITIAL_USD_BALANCE
                  /\ u = report'.user
                  /\ report'.cmd \in {"start", "balance", "portfolio"}
           /\ (report'.cmd = "price" \/ rows' # rows) => users' = users]_vars

\* /portfolio was answered for a user who has a holding and a balance that trades
\* had changed, with a price fetch failing, and the tables are as the trade left them
QueriesWitness ==
    /\ report.cmd = "portfolio"
    /\ report.held # <<>>
    /\ \E c \in DOMAIN report.held : ~PriceOf(c, report.quotes).ok
    /\ last.outcome = "Success"
    /\ last.run < nrun
    /\ cur = {}
    /\ Ledger = last.post
    /\ users[report.user] # INITIAL_USD_BALANCE

\* C14: every stored usd_balance is a whole multiple of 0.01 and every stored
\* holding is a whole multiple of 0.0001, whatever accepted amounts were traded.
SettlementPrecision ==
    /\ \A u \in DOMAIN users : users[u] % UsdPerCent = 0
    /\ \A k \in DOMAIN portfolio : portfolio[k] % CoinPerStep = 0

\* C15: the price of usdt is exactly 1 whatever the price source answers, so a buy
\* or sell of usdt never ends in PriceUnavailable: once it is affordable it
\* succeeds at price 1, and /price usdt and the valuation of a usdt holding always
\* have a price.
UsdtAlwaysPriced ==
    /\ \A quote \in Quotes \cup QueryQuotes :
           get_price(AVAILABLE_COINS["usdt"], quote) = Tok(TRUE, UsdtPrice)
    /\ \A r \in DOMAIN rq :
           (rq[r].parts[1] = "usdt" /\ rq[r].fetched) => rq[r].price = Tok(TRUE, UsdtPrice)
    /\ (last.cmd # None /\ ValidArgs(last.parts) /\ LastCoin = "usdt") =>
           /\ last.outcome # "PriceUnavailable"
           /\ last.fetched => (last.price = Tok(TRUE, UsdtPrice) /\ last.outcome = "Success")
           /\ ~Unaffordable => last.outcome = "Success"
           /\ (last.outcome = "Success" /\ last.cmd = "buy")
                  => last.amount = LastArg * 100
           /\ (last.outcome = "Success" /\ last.cmd = "sell")
                  => last.amount = (LastArg \div 1000) * UsdPerCent

\* usdt was sold while the price source answered nothing
UsdtWitness ==
    /\ last.cmd = "sell"
    /\ LastCoin = "usdt"
    /\ last.quote = NoPrice
    /\ last.outcome = "Success"
    /\ last.price = Tok(TRUE, UsdtPrice)

\* C16: a buy of U <= balance whose coin amount truncates to zero (U / P < 0.0001)
\* is executed: the balance is debited by U, the holding of the coin is what it
\* was (no row when there was none) and one history entry of quantity 0 is added.
ZeroBuyExecutes ==
    (/\ last.cmd = "buy"
     /\ ValidArgs(last.parts)
     /\ ~Unaffordable
     /\ ~Unpriced
     /\ LastArg * 1000 < get_price(AVAILABLE_COINS[LastCoin], last.quote).val) =>
        /\ last.outcome = "Success"
        /\ last.amount = 0
        /\ get_usd_balance(last.post.users, last.user)
               = BalanceOf(last.pre.users, last.user) - LastArg
        /\ Holding(last.post.portfolio, last.user, LastCoin)
               = Holding(last.pre.portfolio, last.user, LastCoin)
        /\ <<last.user, LastCoin>> \in DOMAIN last.post.portfolio
               <=> <<last.user, LastCoin>> \in DOMAIN last.pre.portfolio
        /\ \A k \in DOMAIN last.post.portfolio : last.post.portfolio[k] > 0
        /\ Len(last.post.history) = Len(last.pre.history) + 1
        /\ LET e == last.post.history[Len(last.post.history)]
           IN  /\ e.user_id = last.user
               /\ e.action = "buy"
               /\ e.coin = LastCoin
               /\ e.amount = 0
               /\ e.price = last.price.val

\* 0.003 USD bought no coin for a user who held none of it: the balance is down,
\* there is no row and the history has the entry
ZeroBuyWitness ==
    /\ last.cmd = "buy"
    /\ last.outcome = "Success"
    /\ last.amount = 0
    /\ <<last.user, LastCoin>> \notin DOMAIN last.pre.portfolio
    /\ <<last.user, LastCoin>> \notin DOMAIN portfolio
    /\ Ledger = last.post
    /\ users[last.user] = BalanceOf(last.pre.users, last.user) - LastArg
    /\ history[Len(history)].amount = 0

\* what a trade of user A in coin c may change between the tables s and t: the
\* account of A, A's holding of c, and the history by entries of A in c at its end
OnlyOwn(s, t, A, c) ==
    /\ \A u \in DOMAIN s.users \ {A} : u \in DOMAIN t.users /\ t.users[u] = s.users[u]
    /\ DOMAIN t.users \subseteq DOMAIN s.users \cup {A}
    /\ \A k \in (DOMAIN s.portfolio \cup DOMAIN t.portfolio) \ {<<A, c>>} :
           /\ k \in DOMAIN s.portfolio
           /\ k \in DOMAIN t.portfolio
           /\ t.portfolio[k] = s.portfolio[k]
    /\ Len(t.history) >= Len(s.history)
    /\ SubSeq(t.history, 1, Len(s.history)) = s.history
    /\ \A i \in (Len(s.history) + 1)..Len(t.history) :
           t.history[i].user_id = A /\ t.history[i].coin = c

\* C19: every step of a buy or sell of user A in coin c, and the trade as a whole,
\* leaves the balance, the holdings and the history entries of every other user
\* and A's holdings of every other coin as they were; while no handler is inside
\* its body nothing stored changes.
Isolation ==
    /\ [][/\ \A r \in DOMAIN rq :
                OnlyOwn(Ledger,
                        [users |-> users', portfolio |-> portfolio', history |-> history'],
                        rq[r].user, rq[r].parts[1])
          /\ DOMAIN rq = {} => UNCHANGED <<users, portfolio, history>>]_vars
    /\ [](last.outcome \notin {None, "InvalidInput"}
              => OnlyOwn(last.pre, last.post, last.user, LastCoin))
    /\ [](last.outcome = "InvalidInput" => last.post = last.pre)

\* a trade succeeded for a user who holds another coin too, while another user has
\* a holding and a balance that trades had changed
IsolationWitness ==
    /\ last.outcome = "Success"
    /\ Ledger = last.post
    /\ \E c \in DOMAIN AVAILABLE_COINS \ {LastCoin} :
           <<last.user, c>> \in DOMAIN portfolio
    /\ \E u \in DOMAIN users \ {last.user} :
           /\ users[u] # INITIAL_USD_BALANCE
           /\ \E c \in DOMAIN AVAILABLE_COINS : <<u, c>> \in DOMAIN portfolio

\* the value the report gives a coin when it has a price for it, else 0
Priced(c) ==
    IF c \in DOMAIN report.held /\ PriceOf(c, report.quotes).ok
        THEN report.values[c]
        ELSE 0

\* C18: /portfolio is answered whatever prices are missing: a coin whose price fetch
\* gave nothing is valued 0, a coin with a price at quantity x price rounded to the
\* nearest cent, and the total is the sum of the values of the coins that had a
\* price.
ReportCompletes ==
    report.cmd = "portfolio" =>
        /\ report.done
        /\ DOMAIN report.values = DOMAIN report.held
        /\ \A c \in DOMAIN report.held :
               LET p == PriceOf(c, report.quotes)
                   exact == report.held[c] * p.val
                   v == report.values[c] * 10000
               IN  IF p.ok
                     THEN /\ report.values[c] % UsdPerCent = 0
                          /\ 2 * (v - exact) <= 100000
                          /\ 2 * (exact - v) <= 100000
                     ELSE report.values[c] = 0
        /\ report.total
               = Priced("btc") + Priced("eth") + Priced("bnb") + Priced("ada") + Priced("usdt")

\* a report over two coins or more: one had no price, another had one and its value
\* was rounded
ReportWitness ==
    /\ report.cmd = "portfolio"
    /\ report.done
    /\ report.held = get_portfolio(portfolio, report.user)
    /\ \E c, d \in DOMAIN report.held :
           /\ ~PriceOf(c, report.quotes).ok
           /\ PriceOf(d, report.quotes).ok
           /\ report.values[d] > 0
           /\ report.values[d] * 10000 # report.held[d] * PriceOf(d, report.quotes).val
    /\ report.total > 0

\* the outcomes a buy or sell may end in
Terminal ==
    {"Success", "InvalidInput", "InsufficientFunds", "InsufficientHoldings",
     "PriceUnavailable"}

\* C17: every buy or sell whose handler has started ends, in one of the terminal
\* outcomes, whatever other messages of the same user are queued or were handled:
\* the handlers that have started and not ended are those that hold the event loop,
\* the loop is always given back, and a handler leaves only with a terminal outcome.
EveryTradeEnds ==
    /\ (cur # {}) ~> (cur = {})
    /\ [](DOMAIN rq = cur)
    /\ [][\A r \in DOMAIN rq :
              r \notin DOMAIN rq' => (last'.run = r /\ last'.outcome \in Terminal)]_vars
    /\ [](\A r \in 1..MaxReq :
              (r <= nrun /\ ~Running(r)) =>
                  (r <= last.run /\ last.outcome \in Terminal))

\* the third message of one user was handled to its end, its price fetch having
\* answered nothing
EndsWitness ==
    /\ nrun = MaxReq
    /\ queued = 0
    /\ cur = {}
    /\ last.run = nrun
    /\ last.outcome = "PriceUnavailable"
    /\ DOMAIN users = {last.user}
    /\ Len(history) >= 1

====
